---- MODULE Spec2Model ----
(***************************************************************************)
(* Chess Tournament Manager: the pairing engine (Swiss, Round Robin,      *)
(* Knockout) and the tournament round state machine, modelled from        *)
(* controllers/pairing.py, controllers/tournament.py and                  *)
(* models/tournament.py.                                                  *)
(*                                                                         *)
(* Conventions.  Python's None is NoPlayer for a player id and NoBoard    *)
(* for a board number.  A Result is its token string.  Scores are kept    *)
(* in half points (a win is 2, a draw 1).  random.random() is a draw in   *)
(* hundredths taken from RandomDraws.  A tournament is the record that    *)
(* Tournament.load returns and Tournament.save stores; every operation    *)
(* is load, check, mutate, save.  The time stamps created_at, updated_at  *)
(* and Round.start_time are not part of the model; end_date is.           *)
(***************************************************************************)
EXTENDS Integers, Sequences, FiniteSets, TLC

\* ---------------------------------------------------------------- bounds
\* player ids of the registry, 1..MaxPlayers
MaxPlayers == 4
\* players the lifecycle specification registers
LifePlayers == 2
\* stored rounds per tournament
MaxRounds == 2
\* largest round number requested and largest current_round
MaxRoundNo == 2
\* readings of the clock
MaxTime == 2
\* the num_rounds the tournament is created with
NumRounds == 1
\* players of the largest field the first-round specification registers
MaxField == 6
\* stored rounds of the bracket specification
BracketRounds == 4
\* stored rounds of the bye rotation specification
RotationRounds == 3

\* ------------------------------------------------------------- constants
NoPlayer == 0
NoBoard == 0
NoDate == 0

PlayerIds == 1..MaxPlayers
\* an id with no file in the player registry: Player.load returns None
UnknownPlayer == MaxPlayers + 1

WHITE_WIN == "1-0"
BLACK_WIN == "0-1"
DRAW == "1/2-1/2"
FORFEIT_WHITE == "1-0F"
FORFEIT_BLACK == "0-1F"
DOUBLE_FORFEIT == "0-0F"
ONGOING == "*"
PLAYER1_WIN == "1-0"
PLAYER2_WIN == "0-1"
NOT_PLAYED == "*"

Result == {WHITE_WIN, BLACK_WIN, DRAW, FORFEIT_WHITE, FORFEIT_BLACK,
           DOUBLE_FORFEIT, ONGOING, PLAYER1_WIN, PLAYER2_WIN, NOT_PLAYED}

SWISS == "Swiss"
ROUND_ROBIN == "Round Robin"
KNOCKOUT == "Knockout"
TournamentType == {SWISS, ROUND_ROBIN, KNOCKOUT}

\* random.random() in hundredths: 0.00, 0.50 and 0.99
RandomDraws == {0, 50, 99}

\* ------------------------------------------------------- model structures
Pairing(white_id, black_id, board_number, result) ==
    [white_id |-> white_id, black_id |-> black_id,
     board_number |-> board_number, result |-> result]

Round(number, pairings) == [number |-> number, pairings |-> pairings]

\* ------------------------------------------------------- list helpers
Range(s) == {s[i] : i \in 1..Len(s)}

Min(S) == CHOOSE x \in S : \A y \in S : x <= y

Abs(x) == IF x < 0 THEN -x ELSE x

\* list.remove(x): deletes the first occurrence
Remove(s, x) ==
    LET i == Min({j \in 1..Len(s) : s[j] = x})
    IN  SubSeq(s, 1, i - 1) \o SubSeq(s, i + 1, Len(s))

\* InsertSorted that places x before the first element it does not follow:
\* a sort that is not stable, equal keys end up in reverse order
InsertSorted_Unstable(s, x, key, desc) ==
    LET before == {i \in 1..Len(s) :
                     IF desc THEN key[x] >= key[s[i]] ELSE key[x] <= key[s[i]]}
    IN  IF before = {} THEN Append(s, x)
        ELSE LET i == Min(before)
             IN  SubSeq(s, 1, i - 1) \o <<x>> \o SubSeq(s, i, Len(s))

\* the step list.sort / sorted(key=..., reverse=desc) makes for one element:
\* x is placed before the first element it strictly precedes
InsertSorted(s, x, key, desc) ==
    LET before == {i \in 1..Len(s) :
                     IF desc THEN key[x] > key[s[i]] ELSE key[x] < key[s[i]]}
    IN  IF before = {} THEN Append(s, x)
        ELSE LET i == Min(before)
             IN  SubSeq(s, 1, i - 1) \o <<x>> \o SubSeq(s, i, Len(s))

\* Python's stable sort by key, ascending or (reverse=True) descending
RECURSIVE SortBy(_, _, _)
SortBy(s, key, desc) ==
    IF s = <<>> THEN <<>>
    ELSE InsertSorted(SortBy(SubSeq(s, 1, Len(s) - 1), key, desc),
                      s[Len(s)], key, desc)

\* all pairings of all rounds, in round order then pairing order
RECURSIVE AllPairings(_)
AllPairings(rs) ==
    IF rs = <<>> THEN <<>>
    ELSE AllPairings(SubSeq(rs, 1, Len(rs) - 1)) \o rs[Len(rs)].pairings

\* -------------------------------------------- Tournament model methods
\* points one pairing gives to player_id, in half points
PairingScore(p, player_id) ==
    IF p.white_id = player_id
    THEN IF p.result = WHITE_WIN \/ p.result = FORFEIT_WHITE THEN 2
         ELSE IF p.result = DRAW THEN 1 ELSE 0
    ELSE IF p.black_id = player_id
    THEN IF p.result = BLACK_WIN \/ p.result = FORFEIT_BLACK THEN 2
         ELSE IF p.result = DRAW THEN 1 ELSE 0
    ELSE 0

RECURSIVE SumScore(_, _)
SumScore(ps, player_id) ==
    IF ps = <<>> THEN 0
    ELSE SumScore(SubSeq(ps, 1, Len(ps) - 1), player_id)
         + PairingScore(ps[Len(ps)], player_id)

get_player_score(rs, player_id) == SumScore(AllPairings(rs), player_id)

\* the opponents a player has faced (the code builds a list and only
\* tests membership in it)
get_player_opponents(rs, player_id) ==
    LET ps == AllPairings(rs)
    IN  {ps[i].black_id : i \in {j \in 1..Len(ps) :
              ps[j].white_id = player_id /\ ps[j].black_id # NoPlayer}}
        \cup
        {ps[i].white_id : i \in {j \in 1..Len(ps) :
              ps[j].white_id # player_id /\ ps[j].black_id = player_id
              /\ ps[j].white_id # NoPlayer}}

\* "Set board numbers for all pairings except byes": the pairings whose
\* black_id is present are numbered 1..k in list order
Renumber(pairings) ==
    [i \in 1..Len(pairings) |->
        IF pairings[i].black_id # NoPlayer
        THEN [pairings[i] EXCEPT !.board_number =
                 Cardinality({j \in 1..i : pairings[j].black_id # NoPlayer})]
        ELSE pairings[i]]

ByePairing(player_id) == Pairing(player_id, NoPlayer, NoBoard, WHITE_WIN)

\* a bye slot or a game slot, before board numbers are given
ByeSlot(player_id) == [bye |-> TRUE, white_id |-> player_id, black_id |-> NoPlayer]
GameSlot(white_id, black_id) == [bye |-> FALSE, white_id |-> white_id, black_id |-> black_id]

\* the pairings a strategy appends for its slots: a game takes the running
\* board_number counter and result ONGOING, a bye takes no board and WHITE_WIN;
\* the trailing renumbering pass is applied to the whole list
BuildPairings(slots) ==
    Renumber([i \in 1..Len(slots) |->
        IF slots[i].bye THEN ByePairing(slots[i].white_id)
        ELSE Pairing(slots[i].white_id, slots[i].black_id,
                     Cardinality({j \in 1..i : ~slots[j].bye}), ONGOING)])

\* Player.load(id).rating, 0 when the player has no record
RatingOf(rating, player_id) ==
    IF player_id \in DOMAIN rating THEN rating[player_id] ELSE 0

\* ------------------------------------------------ SwissPairingStrategy
SwissScores(players, rs) ==
    [p \in Range(players) |-> get_player_score(rs, p)]

\* PlayersWithByes that looks at the last stored round only
PlayersWithByes_LastRound(rs) ==
    IF rs = <<>> THEN {}
    ELSE LET ps == rs[Len(rs)].pairings
         IN  {ps[i].white_id : i \in {j \in 1..Len(ps) :
                  ps[j].white_id # NoPlayer /\ ps[j].black_id = NoPlayer}}

PlayersWithByes(rs) ==
    LET ps == AllPairings(rs)
    IN  {ps[i].white_id : i \in {j \in 1..Len(ps) :
              ps[j].white_id # NoPlayer /\ ps[j].black_id = NoPlayer}}
        \cup
        {ps[i].black_id : i \in {j \in 1..Len(ps) :
              ~(ps[j].white_id # NoPlayer /\ ps[j].black_id = NoPlayer)
              /\ ps[j].black_id # NoPlayer /\ ps[j].white_id = NoPlayer}}

\* SwissByePlayer without the test of earlier byes: the lowest score of all
SwissByePlayer_IgnoresHistory(ordered, score, with_byes) ==
    IF Len(ordered) % 2 = 0 THEN NoPlayer
    ELSE SortBy(ordered, score, FALSE)[1]

\* the bye recipient of an odd field, NoPlayer for an even one: ordered is
\* the list sorted by score, with_byes the players who have had a bye
SwissByePlayer(ordered, score, with_byes) ==
    LET bye_candidates == SortBy(ordered, score, FALSE)
        fresh == {i \in 1..Len(bye_candidates) :
                     bye_candidates[i] \notin with_byes}
    IN  IF Len(ordered) % 2 = 0 THEN NoPlayer
        ELSE IF fresh # {} THEN bye_candidates[Min(fresh)]
        ELSE bye_candidates[1]

\* SwissBestOpponent without the previous-opponent test: the nearest score
\* among all the unpaired players
SwissBestOpponent_IgnoresHistory(current_player, unpaired, previous_opponents, score) ==
    LET diff(i) == Abs(score[current_player] - score[unpaired[i]])
    IN  unpaired[Min({i \in 1..Len(unpaired) :
                         \A j \in 1..Len(unpaired) : diff(i) <= diff(j)})]

\* the opponent chosen for current_player among the unpaired players
SwissBestOpponent(current_player, unpaired, previous_opponents, score) ==
    LET cand == {i \in 1..Len(unpaired) :
                    unpaired[i] \notin previous_opponents[current_player]}
        diff(i) == Abs(score[current_player] - score[unpaired[i]])
    IN  IF cand = {} THEN unpaired[1]
        ELSE unpaired[Min({i \in cand : \A j \in cand : diff(i) <= diff(j)})]

\* the while loop: the list of <<current_player, best_opponent>> in the
\* order the pairs are made
RECURSIVE SwissPairUp(_, _, _)
SwissPairUp(unpaired, previous_opponents, score) ==
    IF Len(unpaired) < 2 THEN <<>>
    ELSE LET current_player == Head(unpaired)
             rest == Tail(unpaired)
             best_opponent ==
                 SwissBestOpponent(current_player, rest, previous_opponents, score)
         IN  <<<<current_player, best_opponent>>>>
             \o SwissPairUp(Remove(rest, best_opponent), previous_opponents, score)

\* the players left in unpaired when the loop ends
RECURSIVE SwissLeftover(_, _, _)
SwissLeftover(unpaired, previous_opponents, score) ==
    IF Len(unpaired) < 2 THEN unpaired
    ELSE LET current_player == Head(unpaired)
             rest == Tail(unpaired)
             best_opponent ==
                 SwissBestOpponent(current_player, rest, previous_opponents, score)
         IN  SwissLeftover(Remove(rest, best_opponent), previous_opponents, score)

\* colours of one Swiss game, draw being the value of random.random()
SwissColours(pair, rating, draw) ==
    LET current_rating == RatingOf(rating, pair[1])
        opponent_rating == RatingOf(rating, pair[2])
        swap == IF current_rating < opponent_rating THEN draw < 55 ELSE draw < 45
    IN  IF swap THEN GameSlot(pair[2], pair[1]) ELSE GameSlot(pair[1], pair[2])

\* SwissUnpaired without "players.remove(bye_player)"
SwissUnpaired_KeepsByePlayer(ordered, bye_player) == ordered

\* the unpaired list the loop starts from
SwissUnpaired(ordered, bye_player) ==
    IF bye_player # NoPlayer THEN Remove(ordered, bye_player) ELSE ordered

\* SwissGenerate where the first value of random.random() also decides the
\* order in which the pairs take their boards
SwissGenerate_DrawsBoards(bye_player, pairs, left, rating, round_number, draws) ==
    LET n == Len(pairs)
        seated == IF n > 0 /\ draws[1] < 50
                  THEN [i \in 1..n |-> pairs[n + 1 - i]] ELSE pairs
    IN  Round(round_number, BuildPairings(
            (IF bye_player # NoPlayer THEN <<ByeSlot(bye_player)>> ELSE <<>>)
            \o [i \in 1..n |-> SwissColours(seated[i], rating, draws[i])]
            \o [i \in 1..Len(left) |-> ByeSlot(left[i])]))

\* the round built from the bye, the pairs and the leftover players
SwissGenerate(bye_player, pairs, left, rating, round_number, draws) ==
    Round(round_number, BuildPairings(
        (IF bye_player # NoPlayer THEN <<ByeSlot(bye_player)>> ELSE <<>>)
        \o [i \in 1..Len(pairs) |-> SwissColours(pairs[i], rating, draws[i])]
        \o [i \in 1..Len(left) |-> ByeSlot(left[i])]))

\* every round the Swiss strategy can return
SwissRounds(players, rs, rating, round_number) ==
    LET score == SwissScores(players, rs)
        ordered == SortBy(players, score, TRUE)
        bye_player == SwissByePlayer(ordered, score, PlayersWithByes(rs))
        unpaired == SwissUnpaired(ordered, bye_player)
        previous_opponents == [p \in Range(players) |-> get_player_opponents(rs, p)]
        pairs == SwissPairUp(unpaired, previous_opponents, score)
        left == SwissLeftover(unpaired, previous_opponents, score)
    IN  {SwissGenerate(bye_player, pairs, left, rating, round_number, draws) :
            draws \in [1..Len(pairs) -> RandomDraws]}

\* ------------------------------------------- RoundRobinPairingStrategy
\* RotateRight that makes one rotation step whatever the number of steps
\* asked for
RotateRight_SingleStep(rotation, steps) ==
    IF steps <= 0 THEN rotation
    ELSE <<rotation[Len(rotation)]>> \o SubSeq(rotation, 1, Len(rotation) - 1)

\* one rotation step: the last element moves to the front
RECURSIVE RotateRight(_, _)
RotateRight(rotation, steps) ==
    IF steps <= 0 THEN rotation
    ELSE RotateRight(<<rotation[Len(rotation)]>>
                     \o SubSeq(rotation, 1, Len(rotation) - 1), steps - 1)

RoundRobinGenerate(players, round_number) ==
    LET padded == IF Len(players) % 2 # 0 THEN Append(players, NoPlayer) ELSE players
        n == Len(padded)
        adjusted_round == round_number - 1
        rotated_players == <<padded[1]>> \o RotateRight(Tail(padded), adjusted_round)
        slot(i) ==
            LET white_id == rotated_players[i + 1]
                black_id == rotated_players[n - i]
            IN  IF white_id = NoPlayer \/ black_id = NoPlayer
                THEN ByeSlot(IF white_id # NoPlayer THEN white_id ELSE black_id)
                ELSE IF (i + adjusted_round) % 2 = 0
                THEN GameSlot(black_id, white_id)
                ELSE GameSlot(white_id, black_id)
    IN  Round(round_number, BuildPairings([k \in 1..(n \div 2) |-> slot(k - 1)]))

\* players[0] of an empty list raises IndexError: no round
RoundRobinRounds(players, round_number) ==
    IF Len(players) = 0 THEN {} ELSE {RoundRobinGenerate(players, round_number)}

\* --------------------------------------------- KnockoutPairingStrategy
\* a & b on two's-complement integers, for a >= 0
RECURSIVE BitAnd(_, _)
BitAnd(a, b) ==
    IF a = 0 \/ b = 0 THEN 0
    ELSE (a % 2) * (b % 2) + 2 * BitAnd(a \div 2, b \div 2)

\* PadToPowerOfTwo that appends nothing
PadToPowerOfTwo_None(players) == players

\* "while (len & (len - 1)) != 0: players.append(None)"
RECURSIVE PadToPowerOfTwo(_)
PadToPowerOfTwo(players) ==
    IF BitAnd(Len(players), Len(players) - 1) # 0
    THEN PadToPowerOfTwo(Append(players, NoPlayer))
    ELSE players

\* KnockoutSeeds that pads an odd list with one bye, as Round Robin does,
\* instead of padding to a power of two
KnockoutSeeds_PadsToEven(players, rating) ==
    LET seeded == SortBy(players,
                      [p \in Range(players) |-> RatingOf(rating, p)], TRUE)
    IN  IF Len(seeded) % 2 # 0 THEN Append(seeded, NoPlayer) ELSE seeded

\* KnockoutSeeds without the sort by rating: the registration order, padded
KnockoutSeeds_Unseeded(players, rating) == PadToPowerOfTwo(players)

\* round 1: the players seeded by rating, highest first, padded with byes
KnockoutSeeds(players, rating) ==
    PadToPowerOfTwo(SortBy(players,
        [p \in Range(players) |-> RatingOf(rating, p)], TRUE))

KnockoutFirstRound(players, rating, round_number, draws) ==
    LET seeds == KnockoutSeeds(players, rating)
        n == Len(seeds)
        slot(i) ==
            LET white_id == seeds[i + 1]
                black_id == seeds[n - i]
            IN  IF white_id = NoPlayer \/ black_id = NoPlayer
                THEN ByeSlot(IF white_id # NoPlayer THEN white_id ELSE black_id)
                ELSE IF draws[i + 1] < 50
                THEN GameSlot(black_id, white_id)
                ELSE GameSlot(white_id, black_id)
    IN  Round(round_number, BuildPairings([k \in 1..(n \div 2) |-> slot(k - 1)]))

\* the first stored round with the given number, as a set of list indices
RoundIndex(rs, number) ==
    LET found == {i \in 1..Len(rs) : rs[i].number = number}
    IN  IF found = {} THEN 0 ELSE Min(found)

\* KnockoutWinners without the branch for a win of black: only white
\* advances from a decided game
RECURSIVE KnockoutWinners_WhiteOnly(_, _)
KnockoutWinners_WhiteOnly(pairings, draws) ==
    IF pairings = <<>> THEN <<>>
    ELSE LET k == Len(pairings)
             pairing == pairings[k]
             before == KnockoutWinners_WhiteOnly(SubSeq(pairings, 1, k - 1), draws)
         IN  IF pairing.result = WHITE_WIN \/ pairing.result = FORFEIT_WHITE
             THEN Append(before, pairing.white_id)
             ELSE IF pairing.result = DRAW
             THEN Append(before, IF draws[k] < 50 THEN pairing.white_id
                                 ELSE pairing.black_id)
             ELSE before

\* KnockoutWinners with the two colours exchanged: the loser of a decided
\* game advances
RECURSIVE KnockoutWinners_Losers(_, _)
KnockoutWinners_Losers(pairings, draws) ==
    IF pairings = <<>> THEN <<>>
    ELSE LET k == Len(pairings)
             pairing == pairings[k]
             before == KnockoutWinners_Losers(SubSeq(pairings, 1, k - 1), draws)
         IN  IF pairing.result = WHITE_WIN \/ pairing.result = FORFEIT_WHITE
             THEN Append(before, pairing.black_id)
             ELSE IF pairing.result = BLACK_WIN \/ pairing.result = FORFEIT_BLACK
             THEN Append(before, pairing.white_id)
             ELSE IF pairing.result = DRAW
             THEN Append(before, IF draws[k] < 50 THEN pairing.white_id
                                 ELSE pairing.black_id)
             ELSE before

\* the players advancing from previous_round, one draw per pairing (used
\* for a DRAW only)
RECURSIVE KnockoutWinners(_, _)
KnockoutWinners(pairings, draws) ==
    IF pairings = <<>> THEN <<>>
    ELSE LET k == Len(pairings)
             pairing == pairings[k]
             before == KnockoutWinners(SubSeq(pairings, 1, k - 1), draws)
         IN  IF pairing.result = WHITE_WIN \/ pairing.result = FORFEIT_WHITE
             THEN Append(before, pairing.white_id)
             ELSE IF pairing.result = BLACK_WIN \/ pairing.result = FORFEIT_BLACK
             THEN Append(before, pairing.black_id)
             ELSE IF pairing.result = DRAW
             THEN Append(before, IF draws[k] < 50 THEN pairing.white_id
                                 ELSE pairing.black_id)
             ELSE before

KnockoutNextRound(previous_round, round_number, draws, colours) ==
    LET winners == KnockoutWinners(previous_round.pairings, draws)
        m == (Len(winners) + 1) \div 2
        slot(k) ==
            LET i == 2 * (k - 1)
            IN  IF i + 1 < Len(winners)
                THEN IF colours[k] < 50
                     THEN GameSlot(winners[i + 2], winners[i + 1])
                     ELSE GameSlot(winners[i + 1], winners[i + 2])
                ELSE ByeSlot(winners[i + 1])
    IN  Round(round_number, BuildPairings([k \in 1..m |-> slot(k)]))

\* KnockoutRounds that, when the previous round is missing, seeds a first
\* round instead of raising ValueError
KnockoutRounds_Fabricates(players, rs, rating, round_number) ==
    IF round_number = 1 \/ RoundIndex(rs, round_number - 1) = 0
    THEN {KnockoutFirstRound(players, rating, round_number, draws) :
            draws \in [1..(Len(KnockoutSeeds(players, rating)) \div 2) -> RandomDraws]}
    ELSE LET previous_round == rs[RoundIndex(rs, round_number - 1)]
             np == Len(previous_round.pairings)
         IN  {KnockoutNextRound(previous_round, round_number, draws, colours) :
                draws \in [1..np -> RandomDraws],
                colours \in [1..((np + 1) \div 2) -> RandomDraws]}

\* every round the Knockout strategy can return; none when it raises
\* ValueError("Cannot find previous round")
KnockoutRounds(players, rs, rating, round_number) ==
    IF round_number = 1
    THEN {KnockoutFirstRound(players, rating, round_number, draws) :
            draws \in [1..(Len(KnockoutSeeds(players, rating)) \div 2) -> RandomDraws]}
    ELSE IF RoundIndex(rs, round_number - 1) = 0 THEN {}
    ELSE LET previous_round == rs[RoundIndex(rs, round_number - 1)]
             np == Len(previous_round.pairings)
         IN  {KnockoutNextRound(previous_round, round_number, draws, colours) :
                draws \in [1..np -> RandomDraws],
                colours \in [1..((np + 1) \div 2) -> RandomDraws]}

\* StrategyRounds whose strategy table gives Round Robin the Swiss strategy
StrategyRounds_RoundRobinAsSwiss(tournament_type, players, rs, rating, round_number) ==
    IF tournament_type = SWISS \/ tournament_type = ROUND_ROBIN
    THEN SwissRounds(players, rs, rating, round_number)
    ELSE KnockoutRounds(players, rs, rating, round_number)

\* get_pairing_strategy and the strategy call: the set of rounds the call
\* can return, empty when it raises
StrategyRounds(tournament_type, players, rs, rating, round_number) ==
    IF tournament_type = SWISS
    THEN SwissRounds(players, rs, rating, round_number)
    ELSE IF tournament_type = ROUND_ROBIN
    THEN RoundRobinRounds(players, round_number)
    ELSE KnockoutRounds(players, rs, rating, round_number)

\* ------------------------------------------------------------ the state
VARIABLES
    tournament,  \* the stored Tournament: what Tournament.load returns
    rating,      \* the player registry: id -> Player.rating
    calls        \* the generate_pairings invocations that run step by step:
                 \* for each caller its position and the Tournament it loaded

vars == <<tournament, rating, calls>>

\* Tournament.__init__ as create_tournament calls it
NewTournament(tournament_type, num_rounds) ==
    [tournament_type |-> tournament_type,
     num_rounds |-> num_rounds,
     end_date |-> NoDate,
     players |-> <<>>,
     rounds |-> <<>>,
     current_round |-> 0,
     is_finished |-> FALSE]

\* what a controller call returns and what it leaves stored
Outcome(ret, t) == [ret |-> ret, tournament |-> t]

\* ----------------------------------------------------- inputs of calls
\* generate_pairings(tournament_id) with round_number left at None
NoRoundNumber == -1
RoundNumberInputs == {NoRoundNumber} \cup 0..MaxRoundNo
BoardInputs == {NoBoard} \cup 1..((MaxPlayers \div 2) + 1)
LifeBoardInputs == {NoBoard} \cup 1..((LifePlayers \div 2) + 1)
\* a string that is no value of the Result enumeration
BadToken == "2-0"
\* every result string a caller may pass: the enumeration's values and one
\* string outside it
ResultInputs == Result \cup {BadToken}
\* result strings entered in the lifecycle specification
LifeResultInputs == {BLACK_WIN, BadToken}
\* result strings entered in the pairing specification
PairResultInputs == {WHITE_WIN, BLACK_WIN, DRAW, DOUBLE_FORFEIT}
\* readings of datetime.now()
Times == 1..MaxTime
\* the registries the model is run with.  BaseRegistry: ratings 1, 0, 1, ...
\* by id, so that ratings tie, one is 0 and the rating order is not the id
\* order; the other has rating = id, all different
BaseRegistry == [p \in PlayerIds |-> p % 2]
RatingChoices == {BaseRegistry, [p \in PlayerIds |-> p]}

\* ------------------------------------------------- Tournament methods
\* start_tournament without the test of is_finished
Tournament_start_tournament_IgnoresFinished(t) ==
    IF t.current_round = 0
    THEN Outcome(TRUE, [t EXCEPT !.current_round = 1])
    ELSE Outcome(FALSE, t)

Tournament_start_tournament(t) ==
    IF ~t.is_finished /\ t.current_round = 0
    THEN Outcome(TRUE, [t EXCEPT !.current_round = 1])
    ELSE Outcome(FALSE, t)

Tournament_finish_tournament(t, now) ==
    [t EXCEPT !.is_finished = TRUE, !.end_date = now]

Tournament_add_player(t, player_id) ==
    IF player_id \notin Range(t.players)
    THEN Outcome(TRUE, [t EXCEPT !.players = Append(t.players, player_id)])
    ELSE Outcome(FALSE, t)

Tournament_remove_player(t, player_id) ==
    IF player_id \in Range(t.players)
    THEN Outcome(TRUE, [t EXCEPT !.players = Remove(t.players, player_id)])
    ELSE Outcome(FALSE, t)

\* Tournament.save that adds the object's last round to the rounds already
\* stored instead of replacing the stored tournament
Tournament_save_AppendsRound(stored, t) ==
    IF t.rounds = <<>> THEN t
    ELSE [t EXCEPT !.rounds = Append(stored.rounds, t.rounds[Len(t.rounds)])]

\* Tournament.save: the file is rewritten from the object, whatever it held
Tournament_save(stored, t) == t

Tournament_add_round(t, round_obj) ==
    [t EXCEPT !.rounds = Append(t.rounds, round_obj)]

\* Tournament.get_standings: the loop builds one entry per player whose
\* record loads, and reads player.name for it; Player has no attribute name
\* (only first_name, last_name and the property full_name), so the first such
\* player raises AttributeError.  The result says whether the call raised
\* and, if not, holds the list returned.
get_standings(t, reg) ==
    IF \E i \in 1..Len(t.players) : t.players[i] \in DOMAIN reg
    THEN [raised |-> TRUE, standings |-> <<>>]
    ELSE [raised |-> FALSE, standings |-> <<>>]

\* ------------------------------------------------ controller functions
\* each maps the loaded tournament and the arguments to the outcome of the
\* call; the calls that consume random numbers map to the set of outcomes

start_tournament(t) == Tournament_start_tournament(t)

finish_tournament(t, now) == Outcome(TRUE, Tournament_finish_tournament(t, now))

add_player_to_tournament(t, reg, player_id) ==
    IF t.current_round > 0 THEN Outcome(FALSE, t)
    ELSE IF player_id \notin DOMAIN reg THEN Outcome(FALSE, t)
    ELSE Tournament_add_player(t, player_id)

\* remove_player_from_tournament without the test of current_round
remove_player_from_tournament_Unfrozen(t, player_id) ==
    Tournament_remove_player(t, player_id)

remove_player_from_tournament(t, player_id) ==
    IF t.current_round > 0 THEN Outcome(FALSE, t)
    ELSE Tournament_remove_player(t, player_id)

\* generate_pairings without the "Pairings already exist" loop
generate_pairings_Unguarded(t, reg, round_number_arg) ==
    LET round_number == IF round_number_arg = NoRoundNumber THEN t.current_round
                        ELSE round_number_arg
        made == StrategyRounds(t.tournament_type, t.players, t.rounds, reg,
                               round_number)
    IN  IF made = {} THEN {Outcome(FALSE, t)}
        ELSE {Outcome(TRUE, Tournament_add_round(t, r)) : r \in made}

generate_pairings(t, reg, round_number_arg) ==
    LET round_number == IF round_number_arg = NoRoundNumber THEN t.current_round
                        ELSE round_number_arg
        made == StrategyRounds(t.tournament_type, t.players, t.rounds, reg,
                               round_number)
    IN  IF \E i \in 1..Len(t.rounds) : t.rounds[i].number = round_number
        THEN {Outcome(FALSE, t)}
        ELSE IF t.tournament_type \notin TournamentType
        THEN {Outcome(FALSE, t)}
        ELSE IF made = {}
        THEN {Outcome(FALSE, t)}
        ELSE {Outcome(TRUE, Tournament_add_round(t, r)) : r \in made}

start_next_round(t, reg) ==
    IF t.is_finished THEN {Outcome(FALSE, t)}
    ELSE IF t.current_round = 0 /\ ~Tournament_start_tournament(t).ret
    THEN {Outcome(FALSE, t)}
    ELSE generate_pairings(
             IF t.current_round = 0
             THEN Tournament_start_tournament(t).tournament
             ELSE [t EXCEPT !.current_round = t.current_round + 1],
             reg, NoRoundNumber)

\* update_result without the conversion Result(result) that rejects a string
\* outside the enumeration
update_result_Unvalidated(t, round_number, board_number, result) ==
    LET ri == RoundIndex(t.rounds, round_number)
        found == IF ri = 0 THEN {}
                 ELSE {i \in 1..Len(t.rounds[ri].pairings) :
                          t.rounds[ri].pairings[i].board_number = board_number}
    IN  IF ri = 0 THEN Outcome(FALSE, t)
        ELSE IF found = {} THEN Outcome(FALSE, t)
        ELSE Outcome(TRUE,
                 [t EXCEPT !.rounds[ri].pairings[Min(found)].result = result])

\* update_result that looks for the board in the first stored round instead
\* of the round with the requested number
update_result_FirstRound(t, round_number, board_number, result) ==
    LET ri == IF RoundIndex(t.rounds, round_number) = 0 THEN 0 ELSE 1
        found == IF ri = 0 THEN {}
                 ELSE {i \in 1..Len(t.rounds[ri].pairings) :
                          t.rounds[ri].pairings[i].board_number = board_number}
    IN  IF ri = 0 THEN Outcome(FALSE, t)
        ELSE IF found = {} THEN Outcome(FALSE, t)
        ELSE IF result \notin Result THEN Outcome(FALSE, t)
        ELSE Outcome(TRUE,
                 [t EXCEPT !.rounds[ri].pairings[Min(found)].result = result])

update_result(t, round_number, board_number, result) ==
    LET ri == RoundIndex(t.rounds, round_number)
        found == IF ri = 0 THEN {}
                 ELSE {i \in 1..Len(t.rounds[ri].pairings) :
                          t.rounds[ri].pairings[i].board_number = board_number}
    IN  IF ri = 0 THEN Outcome(FALSE, t)
        ELSE IF found = {} THEN Outcome(FALSE, t)
        ELSE IF result \notin Result THEN Outcome(FALSE, t)
        ELSE Outcome(TRUE,
                 [t EXCEPT !.rounds[ri].pairings[Min(found)].result = result])

\* get_tournament_report: player.name is read for every player whose record
\* loads, then get_standings is called; any exception makes the report None
get_tournament_report(t, reg) ==
    IF \/ \E i \in 1..Len(t.players) : t.players[i] \in DOMAIN reg
       \/ get_standings(t, reg).raised
    THEN [is_none |-> TRUE, standings |-> <<>>]
    ELSE [is_none |-> FALSE, standings |-> get_standings(t, reg).standings]

\* the tournament_type strings passed to update_tournament, and the
\* enumeration value whose lower-cased name equals the lower-cased string
TypeStrings == {"Swiss", "round robin", "KNOCKOUT", "Blitz"}
TypeOfString(str) ==
    IF str = "Swiss" THEN SWISS
    ELSE IF str = "round robin" THEN ROUND_ROBIN
    ELSE IF str = "KNOCKOUT" THEN KNOCKOUT
    ELSE "None"

\* the keyword arguments update_tournament is called with, one per call
UpdateKeys == {"tournament_type", "num_rounds", "current_round", "is_finished"}
UpdateValues(key) ==
    IF key = "tournament_type" THEN TypeStrings
    ELSE IF key = "num_rounds" THEN 1..NumRounds
    ELSE IF key = "current_round" THEN 0..MaxRoundNo
    ELSE BOOLEAN

\* controllers.tournament.update_tournament(tournament_id, key=value).  A
\* tournament_type string that names no type is stored by setattr as a
\* string, save() raises on it and nothing is written.
update_tournament(t, key, value) ==
    IF key = "tournament_type"
    THEN IF TypeOfString(value) \in TournamentType
         THEN Outcome(TRUE, [t EXCEPT !.tournament_type = TypeOfString(value)])
         ELSE Outcome(FALSE, t)
    ELSE IF key \in DOMAIN t /\ key \notin {"tournament_id", "created_at", "updated_at"}
    THEN Outcome(TRUE, [t EXCEPT ![key] = value])
    ELSE Outcome(TRUE, t)

\* --------------------------------------------------------------- Init
\* the two callers of generate_pairings whose invocations are followed from
\* the load to the save; an invocation is idle, has loaded, or is done
Callers == {1, 2}

NoCall == [pc |-> "idle", round_number |-> NoRoundNumber, loaded |-> <<>>,
           ret |-> FALSE]

NoCalls == [c \in Callers |-> NoCall]

Init ==
    /\ tournament \in {NewTournament(tt, NumRounds) : tt \in TournamentType}
    /\ rating = BaseRegistry
    /\ calls = NoCalls

\* the same with either registry
InitPair ==
    /\ tournament \in {NewTournament(tt, NumRounds) : tt \in TournamentType}
    /\ rating \in RatingChoices
    /\ calls = NoCalls

\* ------------------------------------------------------------ actions
AddPlayer(player_id) ==
    /\ tournament' = add_player_to_tournament(tournament, rating, player_id).tournament
    /\ UNCHANGED <<rating, calls>>

RemovePlayer(player_id) ==
    /\ tournament' = remove_player_from_tournament(tournament, player_id).tournament
    /\ UNCHANGED <<rating, calls>>

StartTournament ==
    /\ tournament' = start_tournament(tournament).tournament
    /\ UNCHANGED <<rating, calls>>

FinishTournament(now) ==
    /\ tournament' = finish_tournament(tournament, now).tournament
    /\ UNCHANGED <<rating, calls>>

GeneratePairings(round_number_arg) ==
    /\ \E out \in generate_pairings(tournament, rating, round_number_arg) :
          /\ Len(out.tournament.rounds) <= MaxRounds
          /\ tournament' = out.tournament
    /\ UNCHANGED <<rating, calls>>

StartNextRound ==
    /\ \E out \in start_next_round(tournament, rating) :
          /\ Len(out.tournament.rounds) <= MaxRounds
          /\ out.tournament.current_round <= MaxRoundNo
          /\ tournament' = out.tournament
    /\ UNCHANGED <<rating, calls>>

UpdateResult(round_number, board_number, result) ==
    /\ tournament' = update_result(tournament, round_number, board_number,
                                   result).tournament
    /\ UNCHANGED <<rating, calls>>

UpdateTournament(key, value) ==
    /\ tournament' = update_tournament(tournament, key, value).tournament
    /\ UNCHANGED <<rating, calls>>

\* the controller interface of a tournament without update_tournament
NextCore ==
    \/ \E player_id \in 1..LifePlayers \cup {UnknownPlayer} : AddPlayer(player_id)
    \/ \E player_id \in 1..LifePlayers : RemovePlayer(player_id)
    \/ StartTournament
    \/ \E now \in Times : FinishTournament(now)
    \/ \E round_number_arg \in RoundNumberInputs : GeneratePairings(round_number_arg)
    \/ StartNextRound
    \/ \E round_number \in 0..MaxRoundNo, board_number \in LifeBoardInputs,
          result \in LifeResultInputs :
          UpdateResult(round_number, board_number, result)

SpecCore == Init /\ [][NextCore]_vars

\* the whole controller interface of a tournament
Next ==
    \/ NextCore
    \/ \E key \in UpdateKeys : \E value \in UpdateValues(key) :
          UpdateTournament(key, value)

Spec == Init /\ [][Next]_vars

\* player ids are opaque: in the pairing specification they are numbered in
\* the order of first registration
NextIds == {p \in PlayerIds : p <= Len(tournament.players) + 1}

\* a tournament that is filled, run round by round with start_next_round
\* and scored
NextPair ==
    \/ \E player_id \in NextIds \cup {UnknownPlayer} : AddPlayer(player_id)
    \/ StartNextRound
    \/ \E round_number \in 1..MaxRoundNo, board_number \in BoardInputs,
          result \in PairResultInputs :
          UpdateResult(round_number, board_number, result)

SpecPair == InitPair /\ [][NextPair]_vars

\* the registration desk: players come and go in any order until the
\* tournament is started; rounds are started, nothing is scored
NextReg ==
    \/ \E player_id \in PlayerIds \cup {UnknownPlayer} : AddPlayer(player_id)
    \/ \E player_id \in PlayerIds \cup {UnknownPlayer} : RemovePlayer(player_id)
    \/ StartTournament
    \/ StartNextRound

SpecReg == Init /\ [][NextReg]_vars

\* the flow of test_complete_tournament_flow: players are added, the
\* tournament is started with start_tournament, then rounds are started with
\* start_next_round and results are entered
NextFlow ==
    \/ \E player_id \in NextIds : AddPlayer(player_id)
    \/ StartTournament
    \/ (tournament.current_round > 0 /\ StartNextRound)
    \/ \E round_number \in 1..MaxRoundNo, board_number \in BoardInputs,
          result \in PairResultInputs :
          UpdateResult(round_number, board_number, result)

SpecFlow == InitPair /\ [][NextFlow]_vars

\* the registries of the first-round specification, over ids 1..MaxField:
\* ratings 1, 0, 1, ... and rating = id
FieldRegistries == {[p \in 1..MaxField |-> p % 2], [p \in 1..MaxField |-> p]}

InitField ==
    /\ tournament \in {NewTournament(tt, NumRounds) : tt \in TournamentType}
    /\ rating \in FieldRegistries
    /\ calls = NoCalls

\* fields of every size up to MaxField: players register in id order and
\* rounds are started with start_next_round, nothing is scored
NextField ==
    \/ AddPlayer(Len(tournament.players) + 1)
    \/ StartNextRound

SpecField == InitField /\ [][NextField]_vars

\* four rated players registered in any order of rating and paired by the
\* Swiss strategy: the registries give the four ratings to the ids 1..4 in
\* every order, and the ids register in order
ExampleRatings == {2500, 2600, 2700, 2800}

ExampleRegistries ==
    {reg \in [1..Cardinality(ExampleRatings) -> ExampleRatings] :
        \A p, q \in DOMAIN reg : p # q => reg[p] # reg[q]}

InitExample ==
    /\ tournament = NewTournament(SWISS, NumRounds)
    /\ rating \in ExampleRegistries
    /\ calls = NoCalls

NextExample ==
    \/ AddPlayer(Len(tournament.players) + 1)
    \/ StartNextRound

SpecExample == InitExample /\ [][NextExample]_vars

\* a Knockout bracket of eight played to its end: the eight players of the
\* registry register in order, the games of the current round are won by
\* white or by black, and a round is started when every game stored so far
\* is decided
BracketRegistry == [p \in 1..8 |-> p]

BracketResultInputs == {WHITE_WIN, BLACK_WIN}

InitBracket ==
    /\ tournament = NewTournament(KNOCKOUT, NumRounds)
    /\ rating = BracketRegistry
    /\ calls = NoCalls

RoundsDecided ==
    \A i \in 1..Len(tournament.rounds) :
        \A k \in 1..Len(tournament.rounds[i].pairings) :
            tournament.rounds[i].pairings[k].result # ONGOING

StartBracketRound ==
    /\ RoundsDecided
    /\ \E out \in start_next_round(tournament, rating) :
          /\ Len(out.tournament.rounds) <= BracketRounds
          /\ tournament' = out.tournament
    /\ UNCHANGED <<rating, calls>>

NextBracket ==
    \/ AddPlayer(Len(tournament.players) + 1)
    \/ StartBracketRound
    \/ \E board_number \in 1..(Len(tournament.players) \div 2),
          result \in BracketResultInputs :
          UpdateResult(tournament.current_round, board_number, result)

SpecBracket == InitBracket /\ [][NextBracket]_vars

\* a Knockout field seeded from a registry that loses records: players
\* register in id order, delete_player removes a record whether or not the
\* player is in the tournament, and rounds are started
delete_player(reg, player_id) ==
    IF player_id \in DOMAIN reg
    THEN [ret |-> TRUE, rating |-> [p \in DOMAIN reg \ {player_id} |-> reg[p]]]
    ELSE [ret |-> FALSE, rating |-> reg]

DeletePlayer(player_id) ==
    /\ rating' = delete_player(rating, player_id).rating
    /\ UNCHANGED <<tournament, calls>>

InitSeed ==
    /\ tournament = NewTournament(KNOCKOUT, NumRounds)
    /\ rating \in FieldRegistries
    /\ calls = NoCalls

NextSeed ==
    \/ AddPlayer(Len(tournament.players) + 1)
    \/ \E player_id \in 1..MaxField : DeletePlayer(player_id)
    \/ StartNextRound

SpecSeed == InitSeed /\ [][NextSeed]_vars

\* a Swiss tournament of up to five players played round by round: the
\* players register in order, rounds are started one after the other, and
\* in the current round the game of board 1 and the bye (board None) are
\* given a result
RotationRegistry == [p \in 1..5 |-> p]

RotationResultInputs == {WHITE_WIN, BLACK_WIN}

InitRotation ==
    /\ tournament = NewTournament(SWISS, NumRounds)
    /\ rating = RotationRegistry
    /\ calls = NoCalls

StartRotationRound ==
    /\ \E out \in start_next_round(tournament, rating) :
          /\ Len(out.tournament.rounds) <= RotationRounds
          /\ tournament' = out.tournament
    /\ UNCHANGED <<rating, calls>>

NextRotation ==
    \/ AddPlayer(Len(tournament.players) + 1)
    \/ StartRotationRound
    \/ \E board_number \in {NoBoard, 1}, result \in RotationResultInputs :
          UpdateResult(tournament.current_round, board_number, result)

SpecRotation == InitRotation /\ [][NextRotation]_vars

\* two invocations of generate_pairings for the same round number followed
\* from the load to the save, without a lock: Tournament.load at the start
\* of the call, then the check for an existing round, the strategy and
\* add_round on the loaded object, whose save rewrites the stored tournament.
\* The tournament is set up before the first of the two loads.
CallsIdle == \A c \in Callers : calls[c].pc = "idle"

LoadForPairings(c, round_number_arg) ==
    /\ calls[c].pc = "idle"
    /\ \A d \in Callers :
           calls[d].pc # "idle" => calls[d].round_number = round_number_arg
    /\ calls' = [calls EXCEPT ![c] = [pc |-> "loaded",
                                      round_number |-> round_number_arg,
                                      loaded |-> tournament,
                                      ret |-> FALSE]]
    /\ UNCHANGED <<tournament, rating>>

PairAndSave(c) ==
    /\ calls[c].pc = "loaded"
    /\ \E out \in generate_pairings(calls[c].loaded, rating,
                                     calls[c].round_number) :
          /\ Len(out.tournament.rounds) <= MaxRounds
          /\ tournament' = IF out.ret
                           THEN Tournament_save(tournament, out.tournament)
                           ELSE tournament
          /\ calls' = [calls EXCEPT ![c] =
                          [pc |-> "done",
                           round_number |-> calls[c].round_number,
                           loaded |-> <<>>,
                           ret |-> out.ret]]
    /\ UNCHANGED rating

NextConcurrent ==
    \/ \E player_id \in NextIds : CallsIdle /\ AddPlayer(player_id)
    \/ CallsIdle /\ StartNextRound
    \/ \E c \in Callers, round_number_arg \in RoundNumberInputs :
          LoadForPairings(c, round_number_arg)
    \/ \E c \in Callers : PairAndSave(c)

SpecConcurrent == Init /\ [][NextConcurrent]_vars

TypeOK ==
    /\ tournament.tournament_type \in TournamentType
    /\ tournament.players \in Seq(PlayerIds)
    /\ tournament.current_round \in 0..MaxRoundNo
    /\ tournament.is_finished \in BOOLEAN
    /\ Len(tournament.rounds) <= MaxRounds

\* ---------------------------------------------------------------- claims
\* the player ids of a pairing
PairingPlayers(p) == {p.white_id, p.black_id} \ {NoPlayer}

RoundNumbers(rs) == {rs[i].number : i \in 1..Len(rs)}

\* the tournament has players to pair: two or more are registered
HasPlayers == Len(tournament.players) >= 2

C2_Guard ==
    \A n \in RoundNumberInputs :
        LET round_number == IF n = NoRoundNumber THEN tournament.current_round
                            ELSE n
        IN  round_number \in RoundNumbers(tournament.rounds)
            => generate_pairings(tournament, rating, n)
                   = {Outcome(FALSE, tournament)}

C2_DistinctNumbers ==
    \A i, j \in 1..Len(tournament.rounds) :
        i # j => tournament.rounds[i].number # tournament.rounds[j].number

C2_RoundsKept ==
    /\ Len(tournament'.rounds) >= Len(tournament.rounds)
    /\ \A i \in 1..Len(tournament.rounds) :
          LET old == tournament.rounds[i]
              new == tournament'.rounds[i]
          IN  /\ new.number = old.number
              /\ Len(new.pairings) = Len(old.pairings)
              /\ \A k \in 1..Len(old.pairings) :
                    /\ new.pairings[k].white_id = old.pairings[k].white_id
                    /\ new.pairings[k].black_id = old.pairings[k].black_id
                    /\ new.pairings[k].board_number = old.pairings[k].board_number

C2_NoRegeneration ==
    [](C2_Guard /\ C2_DistinctNumbers) /\ [][C2_RoundsKept]_vars

\* two rounds are stored and a request for the number of either is refused
C2_Witness ==
    /\ Len(tournament.rounds) = 2
    /\ \A i \in 1..2 :
          generate_pairings(tournament, rating, tournament.rounds[i].number)
              = {Outcome(FALSE, tournament)}

\* C3: the stored rounds (of a tournament with players) are numbered
\* 1, 2, ..., m in list order: the round at list index i has number i.
C3_RoundsNumberedInOrder ==
    HasPlayers => \A i \in 1..Len(tournament.rounds) : tournament.rounds[i].number = i

\* C4: once players are added and start_tournament has succeeded, every
\* call to start_next_round succeeds and the k-th call stores, as the last
\* round, a round numbered k (in the flow all rounds come from these calls,
\* so the round the k-th call appends is the k-th of the list).
C4_KthCallStoresRoundK ==
    (HasPlayers /\ tournament.current_round > 0)
    => \A out \in start_next_round(tournament, rating) :
           /\ out.ret
           /\ Len(out.tournament.rounds) = Len(tournament.rounds) + 1
           /\ out.tournament.rounds[Len(out.tournament.rounds)].number
                  = Len(out.tournament.rounds)

\* C5: current_round = 0 exactly when no round is stored, and a pairing
\* request, with or without a round number, on a tournament (with players)
\* that has not been started fails and stores no round.
C5_NotStartedNoRounds ==
    HasPlayers
    => /\ tournament.current_round = 0 <=> tournament.rounds = <<>>
       /\ tournament.current_round = 0
          => \A n \in RoundNumberInputs :
                 generate_pairings(tournament, rating, n)
                     = {Outcome(FALSE, tournament)}

\* C6: on a finished tournament (with players) start_next_round and
\* generate_pairings, for any round number, fail and leave the stored rounds
\* as they are.
C6_FinishedAddsNoRound ==
    (HasPlayers /\ tournament.is_finished)
    => /\ \A out \in start_next_round(tournament, rating) :
              ~out.ret /\ out.tournament.rounds = tournament.rounds
       /\ \A n \in RoundNumberInputs :
              \A out \in generate_pairings(tournament, rating, n) :
                  ~out.ret /\ out.tournament.rounds = tournament.rounds

\* C7: once is_finished is true (for a tournament with players) no
\* controller operation makes it false again or changes current_round.
C7_FinishedIsTerminal ==
    [][(HasPlayers /\ tournament.is_finished)
         => /\ tournament'.is_finished
            /\ tournament'.current_round = tournament.current_round]_vars

\* C8: a started, unfinished tournament (with players) has
\* 1 <= current_round <= num_rounds.
C8_CurrentRoundInRange ==
    (HasPlayers /\ tournament.current_round # 0 /\ ~tournament.is_finished)
    => /\ 1 <= tournament.current_round
       /\ tournament.current_round <= tournament.num_rounds

\* the list without player_id, the others in order
Without(ps, player_id) ==
    LET Keep(x) == x # player_id IN SelectSeq(ps, Keep)

\* C9: once current_round > 0, add_player_to_tournament and
\* remove_player_from_tournament fail and leave the tournament unchanged;
\* while current_round = 0 a successful add appends exactly that player, a
\* successful remove deletes exactly that player and keeps the others in
\* order, and a failed call changes nothing.
C9_PlayerListFrozen ==
    \A player_id \in PlayerIds \cup {UnknownPlayer} :
        LET added == add_player_to_tournament(tournament, rating, player_id)
            removed == remove_player_from_tournament(tournament, player_id)
        IN  IF tournament.current_round > 0
            THEN /\ added = Outcome(FALSE, tournament)
                 /\ removed = Outcome(FALSE, tournament)
            ELSE /\ added.ret
                    => added.tournament = [tournament EXCEPT !.players =
                                              Append(tournament.players, player_id)]
                 /\ ~added.ret => added.tournament = tournament
                 /\ removed.ret
                    => /\ player_id \in Range(tournament.players)
                       /\ removed.tournament = [tournament EXCEPT !.players =
                              Without(tournament.players, player_id)]
                 /\ ~removed.ret => removed.tournament = tournament

\* a started tournament with a full player list and a stored round
C9_Witness ==
    /\ tournament.current_round > 0
    /\ Len(tournament.players) = MaxPlayers
    /\ Len(tournament.rounds) >= 1

\* C10: start_tournament succeeds exactly from NotStarted (current_round = 0
\* and not finished), where it sets current_round to 1 and changes nothing
\* else; otherwise it returns failure and changes nothing.
C10_StartOnlyFromNotStarted ==
    LET out == start_tournament(tournament)
    IN  IF tournament.current_round = 0 /\ ~tournament.is_finished
        THEN /\ out.ret
             /\ out.tournament = [tournament EXCEPT !.current_round = 1]
        ELSE /\ ~out.ret
             /\ out.tournament = tournament

\* a tournament with players that start_tournament has started, no round yet
C10_Witness ==
    /\ tournament.current_round = 1
    /\ ~tournament.is_finished
    /\ tournament.players # <<>>
    /\ tournament.rounds = <<>>

\* C11: finish_tournament on a finished tournament (with players) is a no-op:
\* called at any later reading of the clock it leaves the whole tournament,
\* the stamped end date included, as the first call left it.
C11_FinishIdempotent ==
    (HasPlayers /\ tournament.is_finished)
    => \A now \in Times :
           now >= tournament.end_date
           => finish_tournament(tournament, now).tournament = tournament

\* the seven canonical result tokens
CanonicalTokens == {"1-0", "0-1", "1/2-1/2", "1-0F", "0-1F", "0-0F", "*"}

\* the board numbers held by the pairings of the first stored round numbered
\* round_number (NoBoard for a pairing without a board)
BoardsOf(rs, round_number) ==
    LET ri == Min({i \in 1..Len(rs) : rs[i].number = round_number})
    IN  {rs[ri].pairings[k].board_number : k \in 1..Len(rs[ri].pairings)}

\* C12: update_result returns failure and leaves the whole tournament as it
\* is when the round number is not stored, when no pairing of that round has
\* the given board number, or when the result is not one of the seven
\* canonical tokens.
C12_UpdateResultRejects ==
    \A round_number \in 0..MaxRoundNo, board_number \in BoardInputs,
       result \in ResultInputs :
        (\/ round_number \notin RoundNumbers(tournament.rounds)
         \/ board_number \notin BoardsOf(tournament.rounds, round_number)
         \/ result \notin CanonicalTokens)
        => update_result(tournament, round_number, board_number, result)
               = Outcome(FALSE, tournament)

\* a scored round of a game and a bye is stored, with no board 2 and no
\* round 2 to update
C12_Witness ==
    /\ Len(tournament.rounds) = 1
    /\ Len(tournament.rounds[1].pairings) = 2
    /\ \E k \in 1..2 : /\ tournament.rounds[1].pairings[k].board_number = 1
                       /\ tournament.rounds[1].pairings[k].result = DRAW
    /\ 2 \notin BoardsOf(tournament.rounds, tournament.rounds[1].number)

\* C13: a successful update_result(round, board, value) changes only the
\* result field of one pairing, a pairing of the round with that number that
\* has that board number: the ids and boards of every pairing, every other
\* result, the round numbers, the player list, current_round and is_finished
\* stay as they were.
C13_UpdateResultFrame ==
    \A round_number \in 0..MaxRoundNo, board_number \in BoardInputs,
       result \in ResultInputs :
        LET out == update_result(tournament, round_number, board_number, result)
        IN  out.ret
            => \E ri \in 1..Len(tournament.rounds) :
                   \E k \in 1..Len(tournament.rounds[ri].pairings) :
                       /\ tournament.rounds[ri].number = round_number
                       /\ tournament.rounds[ri].pairings[k].board_number
                              = board_number
                       /\ result \in CanonicalTokens
                       /\ out.tournament =
                              [tournament EXCEPT
                                  !.rounds[ri].pairings[k].result = result]

\* two rounds are stored and a result has been entered in each
C13_Witness ==
    /\ Len(tournament.rounds) = 2
    /\ tournament.rounds[1].pairings # <<>>
    /\ tournament.rounds[2].pairings # <<>>
    /\ tournament.rounds[1].pairings[1].result = DRAW
    /\ tournament.rounds[2].pairings[1].result = BLACK_WIN
    /\ tournament.rounds[2].pairings[1].black_id # NoPlayer

\* C14: round generation is atomic: a generate_pairings call that fails
\* appends no round and leaves the stored tournament as it is, and a Knockout
\* request for a round N > 1 whose round N - 1 is not stored fails.
C14_GenerationAtomic ==
    \A n \in RoundNumberInputs :
        LET round_number == IF n = NoRoundNumber THEN tournament.current_round
                            ELSE n
        IN  /\ \A out \in generate_pairings(tournament, rating, n) :
                   ~out.ret => out.tournament = tournament
            /\ (/\ tournament.tournament_type = KNOCKOUT
                /\ round_number > 1
                /\ round_number - 1 \notin RoundNumbers(tournament.rounds))
               => generate_pairings(tournament, rating, n)
                      = {Outcome(FALSE, tournament)}

\* a Knockout tournament with players stands at round 2 with no round stored
C14_Witness ==
    /\ tournament.tournament_type = KNOCKOUT
    /\ HasPlayers
    /\ tournament.current_round = 2
    /\ tournament.rounds = <<>>
    /\ generate_pairings(tournament, rating, NoRoundNumber)
           = {Outcome(FALSE, tournament)}

\* the pairings with both sides present, and those with one side absent
RealPairings(ps) ==
    {k \in 1..Len(ps) : ps[k].white_id # NoPlayer /\ ps[k].black_id # NoPlayer}
ByePairings(ps) ==
    {k \in 1..Len(ps) : ps[k].white_id = NoPlayer \/ ps[k].black_id = NoPlayer}

\* C15 as claimed: the first round generated for a field of N players (here
\* N >= 2), in any of the three formats, holds exactly N \div 2 two-sided
\* pairings, and holds a bye exactly when N is odd.
C15_FirstRoundShape ==
    (/\ HasPlayers
     /\ tournament.current_round = 0
     /\ tournament.rounds = <<>>)
    => \A out \in start_next_round(tournament, rating) :
           /\ out.ret
           /\ LET ps == out.tournament.rounds[1].pairings
                  N == Len(tournament.players)
              IN  /\ Cardinality(RealPairings(ps)) = N \div 2
                  /\ ByePairings(ps) # {} <=> N % 2 = 1

\* the smallest power of two that is at least n, for n >= 1
BracketSize(n) == Min({p \in {1, 2, 4, 8, 16} : p >= n})

\* C15, amended: the first round of a field of N >= 1 players holds, for
\* Swiss and Round Robin, N \div 2 two-sided pairings and a bye exactly when N
\* is odd; for Knockout, with P the smallest power of two >= N, it holds
\* P - N byes and (N - (P - N)) \div 2 two-sided pairings (none at all for
\* N = 1).
C15_FirstRoundByFormat ==
    (/\ Len(tournament.players) >= 1
     /\ tournament.current_round = 0
     /\ tournament.rounds = <<>>)
    => \A out \in start_next_round(tournament, rating) :
           /\ out.ret
           /\ Len(out.tournament.rounds) = 1
           /\ LET ps == out.tournament.rounds[1].pairings
                  N == Len(tournament.players)
                  byes == BracketSize(N) - N
              IN  IF tournament.tournament_type = KNOCKOUT
                  THEN /\ Cardinality(ByePairings(ps)) = byes
                       /\ Cardinality(RealPairings(ps)) = (N - byes) \div 2
                  ELSE /\ Cardinality(RealPairings(ps)) = N \div 2
                       /\ ByePairings(ps) # {} <=> N % 2 = 1

\* the first round of a Knockout field of six is stored: two games, two byes
C15_Witness ==
    /\ tournament.tournament_type = KNOCKOUT
    /\ Len(tournament.players) = 6
    /\ Len(tournament.rounds) = 1
    /\ Cardinality(RealPairings(tournament.rounds[1].pairings)) = 2
    /\ Cardinality(ByePairings(tournament.rounds[1].pairings)) = 2

\* C16: in every stored round the pairings that are not byes (black_id
\* present) carry the board numbers 1, 2, ..., k in list order, and every bye
\* (black_id absent) carries no board number.
C16_BoardsDense ==
    \A r \in 1..Len(tournament.rounds) :
        LET ps == tournament.rounds[r].pairings
        IN  \A k \in 1..Len(ps) :
                IF ps[k].black_id # NoPlayer
                THEN ps[k].board_number
                         = Cardinality({j \in 1..k : ps[j].black_id # NoPlayer})
                ELSE ps[k].board_number = NoBoard

\* C17: no stored pairing has both sides absent, and every pairing with one
\* side absent holds its player as white_id, has black_id absent and has the
\* result WHITE_WIN, whatever update_result calls have been made.
C17_ByeIsFixedWhiteWin ==
    \A r \in 1..Len(tournament.rounds) :
        LET ps == tournament.rounds[r].pairings
        IN  \A k \in 1..Len(ps) :
                /\ ~(ps[k].white_id = NoPlayer /\ ps[k].black_id = NoPlayer)
                /\ (ps[k].white_id = NoPlayer \/ ps[k].black_id = NoPlayer)
                   => /\ ps[k].white_id # NoPlayer
                      /\ ps[k].black_id = NoPlayer
                      /\ ps[k].result = WHITE_WIN

\* the half points the pairings ps give to the players of a list, summed
RECURSIVE TotalPoints(_, _)
TotalPoints(ps, players) ==
    IF players = <<>> THEN 0
    ELSE TotalPoints(ps, Tail(players)) + SumScore(ps, Head(players))

\* C18: in a round whose real games all have a recorded result (here: none
\* is ONGOING and none a DOUBLE_FORFEIT), with k real games and b byes, the
\* points the round gives to the players sum to k + b (in half points,
\* 2 * (k + b)).
C18_ScoreConservation ==
    \A r \in 1..Len(tournament.rounds) :
        LET ps == tournament.rounds[r].pairings
        IN  (\A k \in RealPairings(ps) :
                 ps[k].result \notin {ONGOING, DOUBLE_FORFEIT})
            => TotalPoints(ps, tournament.players)
                   = 2 * (Cardinality(RealPairings(ps))
                          + Cardinality(ByePairings(ps)))

\* the positions <<r, k>> of the stored pairings in which player_id appears
PositionsOf(rs, player_id) ==
    {pos \in UNION {{<<r, k>> : k \in 1..Len(rs[r].pairings)} :
                        r \in 1..Len(rs)} :
        player_id \in PairingPlayers(rs[pos[1]].pairings[pos[2]])}

\* the positions whose result awards the game to player_id's colour
WonBy(rs, player_id) ==
    {pos \in PositionsOf(rs, player_id) :
        LET p == rs[pos[1]].pairings[pos[2]]
        IN  \/ p.white_id = player_id /\ p.result \in {WHITE_WIN, FORFEIT_WHITE}
            \/ p.black_id = player_id /\ p.result \in {BLACK_WIN, FORFEIT_BLACK}}

DrawnBy(rs, player_id) ==
    {pos \in PositionsOf(rs, player_id) :
        rs[pos[1]].pairings[pos[2]].result = DRAW}

\* the score formula alone: one point per game awarded to the player's
\* colour, half a point per draw, nothing else (in half points)
C19_ScoreFormula ==
    \A player_id \in Range(tournament.players) :
        get_player_score(tournament.rounds, player_id)
            = 2 * Cardinality(WonBy(tournament.rounds, player_id))
              + Cardinality(DrawnBy(tournament.rounds, player_id))

\* C19: get_player_score(p) is one point per pairing whose result awards the
\* game to p's colour, half a point per DRAW and nothing for any other
\* result, and every bye p has received contributes exactly one point.
C19_ScoreAndByes ==
    /\ C19_ScoreFormula
    /\ \A player_id \in Range(tournament.players) :
           \A pos \in PositionsOf(tournament.rounds, player_id) :
               LET p == tournament.rounds[pos[1]].pairings[pos[2]]
               IN  (p.white_id = NoPlayer \/ p.black_id = NoPlayer)
                   => PairingScore(p, player_id) = 2

\* C20: get_standings, and the standings of get_tournament_report, return a
\* list with one entry per player of the tournament's player list.
C20_StandingsOnePerPlayer ==
    /\ ~get_standings(tournament, rating).raised
    /\ Len(get_standings(tournament, rating).standings) = Len(tournament.players)
    /\ ~get_tournament_report(tournament, rating).is_none
    /\ Len(get_tournament_report(tournament, rating).standings)
           = Len(tournament.players)

\* C21: get_standings returns the list ordered by score, highest first;
\* entries of equal score are ordered by rating, highest first; entries equal
\* in both keep the order in which the players were registered.
C21_StandingsOrdered ==
    LET res == get_standings(tournament, rating)
        pos(player_id) ==
            Min({i \in 1..Len(tournament.players) :
                     tournament.players[i] = player_id})
    IN  /\ ~res.raised
        /\ \A i, j \in 1..Len(res.standings) :
               i < j =>
                   LET a == res.standings[i]
                       b == res.standings[j]
                   IN  \/ a.score > b.score
                       \/ a.score = b.score /\ a.rating > b.rating
                       \/ /\ a.score = b.score
                          /\ a.rating = b.rating
                          /\ pos(a.id) < pos(b.id)

\* the rounds of a full Round Robin schedule for n players: n - 1 of them
\* for an even n, n for an odd one
FullSchedule(n) == 1..(IF n % 2 = 0 THEN n - 1 ELSE n)

\* what the strategy of the tournament returns for round r
Generated(r) ==
    StrategyRounds(tournament.tournament_type, tournament.players,
                   tournament.rounds, rating, r)

\* the places <<round, index>> of the full schedule whose pairing holds
\* exactly the players of the set who
ScheduleSlots(who) ==
    LET n == Len(tournament.players)
    IN  {s \in FullSchedule(n) \X (1..n) :
            \E rd \in Generated(s[1]) :
                /\ s[2] <= Len(rd.pairings)
                /\ PairingPlayers(rd.pairings[s[2]]) = who}

\* C22: over the full Round Robin schedule (rounds 1..n-1 for an even number
\* n of players, rounds 1..n for an odd one) every two distinct players are
\* paired exactly once and, for an odd n, every player has exactly one bye.
C22_RoundRobinComplete ==
    tournament.tournament_type = ROUND_ROBIN /\ Len(tournament.players) >= 1 =>
        LET n == Len(tournament.players)
            players == Range(tournament.players)
        IN  /\ \A r \in FullSchedule(n) : Cardinality(Generated(r)) = 1
            /\ \A a, b \in players :
                   a # b => Cardinality(ScheduleSlots({a, b})) = 1
            /\ n % 2 = 1 =>
                   \A a \in players : Cardinality(ScheduleSlots({a})) = 1

\* a Round Robin tournament with an odd field and one with the largest even
\* field are played: five players hold two rounds of the schedule
C22_Witness ==
    /\ tournament.tournament_type = ROUND_ROBIN
    /\ Len(tournament.players) = MaxField - 1
    /\ Len(tournament.rounds) = MaxRounds
    /\ \A i \in 1..Len(tournament.rounds) :
           /\ tournament.rounds[i].number \in FullSchedule(MaxField - 1)
           /\ tournament.rounds[i] \in Generated(tournament.rounds[i].number)

\* players, colours and board of every pairing of a round, the bye included
Shape(rd) ==
    [k \in 1..Len(rd.pairings) |->
        <<rd.pairings[k].white_id, rd.pairings[k].black_id,
          rd.pairings[k].board_number>>]

PlaceOf(player_id) ==
    Min({i \in 1..Len(tournament.players) : tournament.players[i] = player_id})

\* score order: a stands before b when its score is higher or, at equal
\* score, when it was registered earlier
Before(a, b) ==
    LET sa == get_player_score(tournament.rounds, a)
        sb == get_player_score(tournament.rounds, b)
    IN  sa > sb \/ (sa = sb /\ PlaceOf(a) < PlaceOf(b))

\* the players still unpaired when the game at index k of the pairing list
\* ps is made: all but the bye recipients and the players of earlier games
UnpairedAt(ps, k) ==
    Range(tournament.players)
        \ UNION {PairingPlayers(ps[j]) :
                    j \in ByePairings(ps) \cup {i \in RealPairings(ps) : i < k}}

\* C24: in a Swiss round each game joins X, the first unpaired player in
\* score order, with the unpaired player X has not played whose score is
\* nearest to X's (the earliest in score order among equals); only when X
\* has played every unpaired player is the opponent a previous one, and
\* then it is the first of the unpaired players.
C24_SwissOpponent ==
    tournament.tournament_type = SWISS =>
        \A rd \in Generated(Len(tournament.rounds) + 1) :
            \A k \in RealPairings(rd.pairings) :
                LET unpaired == UnpairedAt(rd.pairings, k)
                    x == CHOOSE a \in unpaired :
                             \A b \in unpaired \ {a} : Before(a, b)
                    y == CHOOSE b \in PairingPlayers(rd.pairings[k]) :
                             PairingPlayers(rd.pairings[k]) \subseteq {x, b}
                    cand == (unpaired \ {x})
                                \ get_player_opponents(tournament.rounds, x)
                    diff(c) == Abs(get_player_score(tournament.rounds, x)
                                   - get_player_score(tournament.rounds, c))
                IN  /\ PairingPlayers(rd.pairings[k]) \subseteq unpaired
                    /\ x \in PairingPlayers(rd.pairings[k])
                    /\ y # x
                    /\ IF cand = {}
                       THEN \A c \in unpaired \ {x, y} : Before(y, c)
                       ELSE /\ y \in cand
                            /\ \A c \in cand \ {y} :
                                   \/ diff(y) < diff(c)
                                   \/ diff(y) = diff(c) /\ Before(y, c)

\* a Swiss field of four with a decided first round holds a second round
\* whose first game joins two players who had not met
C24_Witness ==
    /\ tournament.tournament_type = SWISS
    /\ Len(tournament.players) = MaxPlayers
    /\ Len(tournament.rounds) = MaxRounds
    /\ \E k \in 1..Len(tournament.rounds[1].pairings) :
           tournament.rounds[1].pairings[k].result \in {WHITE_WIN, BLACK_WIN}
    /\ \A k \in RealPairings(tournament.rounds[1].pairings) :
           PairingPlayers(tournament.rounds[1].pairings[k])
               # PairingPlayers(tournament.rounds[2].pairings[1])

\* the first Swiss round of four players without history, as start_next_round
\* stores it
FirstRoundsOfFour ==
    {out.tournament.rounds[1] :
        out \in {o \in start_next_round(tournament, rating) : o.ret}}

FourWithoutHistory ==
    /\ tournament.tournament_type = SWISS
    /\ Len(tournament.players) = 4
    /\ tournament.rounds = <<>>

\* the players of the tournament with the given ratings
Rated(ratings) ==
    {p \in Range(tournament.players) : RatingOf(rating, p) \in ratings}

\* C25 as claimed: Swiss round 1 of four players rated 2800, 2700, 2600 and
\* 2500 pairs 2800 with 2700 and 2600 with 2500, without a bye, on boards 1
\* and 2, in whatever order the four were registered.
C25_ExamplePairing ==
    FourWithoutHistory =>
        /\ FirstRoundsOfFour # {}
        /\ \A rd \in FirstRoundsOfFour :
               /\ Len(rd.pairings) = 2
               /\ ByePairings(rd.pairings) = {}
               /\ {rd.pairings[k].board_number : k \in 1..2} = {1, 2}
               /\ {PairingPlayers(rd.pairings[k]) : k \in 1..2}
                      = {Rated({2800, 2700}), Rated({2600, 2500})}

\* C25 amended: Swiss round 1 of four players pairs them in the order of
\* registration, whatever their ratings: the first with the second on board
\* 1 and the third with the fourth on board 2, without a bye.
C25_PairsByRegistration ==
    FourWithoutHistory =>
        /\ FirstRoundsOfFour # {}
        /\ \A rd \in FirstRoundsOfFour :
               /\ Len(rd.pairings) = 2
               /\ ByePairings(rd.pairings) = {}
               /\ rd.pairings[1].board_number = 1
               /\ rd.pairings[2].board_number = 2
               /\ PairingPlayers(rd.pairings[1])
                      = {tournament.players[1], tournament.players[2]}
               /\ PairingPlayers(rd.pairings[2])
                      = {tournament.players[3], tournament.players[4]}

\* the first round is stored for four players registered 2800, 2600, 2700,
\* 2500: 2800 meets 2600
C25_Witness ==
    /\ tournament.tournament_type = SWISS
    /\ Len(tournament.players) = 4
    /\ Len(tournament.rounds) = 1
    /\ [i \in 1..4 |-> RatingOf(rating, tournament.players[i])]
           = <<2800, 2600, 2700, 2500>>
    /\ PairingPlayers(tournament.rounds[1].pairings[1])
           = Rated({2800, 2600})

\* the stored rounds with the given number
RoundsNumbered(number) ==
    {i \in 1..Len(tournament.rounds) : tournament.rounds[i].number = number}

\* a bracket of eight: eight players were paired in round 1 without a bye
BracketOfEight ==
    /\ tournament.tournament_type = KNOCKOUT
    /\ Len(tournament.players) = 8
    /\ \A i \in RoundsNumbered(1) :
           /\ Cardinality(RealPairings(tournament.rounds[i].pairings)) = 4
           /\ ByePairings(tournament.rounds[i].pairings) = {}

\* C26 as claimed: with eight players in round 1 and every game decided,
\* round 2 has exactly 4 pairings, round 3 exactly 2 and round 4, the final,
\* exactly 1.
C26_HalvingAsClaimed ==
    BracketOfEight =>
        /\ \A i \in RoundsNumbered(2) : Len(tournament.rounds[i].pairings) = 4
        /\ \A i \in RoundsNumbered(3) : Len(tournament.rounds[i].pairings) = 2
        /\ \A i \in RoundsNumbered(4) : Len(tournament.rounds[i].pairings) = 1

\* C26 amended: with eight players and every game decided, round 1 has
\* exactly 4 games, round 2 exactly 2 and round 3, the final, exactly 1, none
\* of them with a bye; a round 4 holds nothing but a bye for the winner of
\* the final.
C26_Halving ==
    BracketOfEight =>
        \A i \in 1..Len(tournament.rounds) :
            LET ps == tournament.rounds[i].pairings
                number == tournament.rounds[i].number
            IN  /\ number \in 1..BracketRounds
                /\ number = 1 => Len(ps) = 4 /\ ByePairings(ps) = {}
                /\ number = 2 => Len(ps) = 2 /\ ByePairings(ps) = {}
                /\ number = 3 => Len(ps) = 1 /\ ByePairings(ps) = {}
                /\ number = 4 => Len(ps) = 1 /\ RealPairings(ps) = {}

\* the bracket of eight is played to the final and beyond: four rounds are
\* stored, with a game won by black in the first
C26_Witness ==
    /\ BracketOfEight
    /\ Len(tournament.rounds) = 4
    /\ RoundsNumbered(4) # {}
    /\ \E k \in 1..Len(tournament.rounds[1].pairings) :
           tournament.rounds[1].pairings[k].result = BLACK_WIN

\* the players with a bye in a stored round
HadBye ==
    UNION {UNION {PairingPlayers(tournament.rounds[i].pairings[k]) :
                     k \in ByePairings(tournament.rounds[i].pairings)} :
              i \in 1..Len(tournament.rounds)}

\* C27: a Swiss round for an odd number of players has one bye; it goes to
\* the lowest score among the players without a bye in any stored round (the
\* earliest in score order among equals) or, when every player has had one,
\* to the lowest score of all; its player is in no other pairing.
C27_SwissBye ==
    tournament.tournament_type = SWISS /\ Len(tournament.players) % 2 = 1 =>
        \A rd \in Generated(Len(tournament.rounds) + 1) :
            LET players == Range(tournament.players)
                pool == IF players \subseteq HadBye THEN players
                        ELSE players \ HadBye
                score(p) == get_player_score(tournament.rounds, p)
            IN  /\ Cardinality(ByePairings(rd.pairings)) = 1
                /\ \A k \in ByePairings(rd.pairings) :
                       \E b \in pool :
                           /\ PairingPlayers(rd.pairings[k]) = {b}
                           /\ rd.pairings[k].white_id = b
                           /\ \A c \in pool \ {b} :
                                  \/ score(b) < score(c)
                                  \/ score(b) = score(c) /\ Before(b, c)
                           /\ \A j \in 1..Len(rd.pairings) :
                                  j # k => b \notin PairingPlayers(rd.pairings[j])

\* a Swiss field of three holds two rounds, the byes given to two different
\* players, and the player without a bye does not have the lowest score
C27_Witness ==
    /\ tournament.tournament_type = SWISS
    /\ Len(tournament.players) = 3
    /\ Len(tournament.rounds) = MaxRounds
    /\ Cardinality(HadBye) = 2
    /\ \E c \in HadBye : \A p \in Range(tournament.players) \ HadBye :
           get_player_score(tournament.rounds, c)
               < get_player_score(tournament.rounds, p)

\* the seed of a player, counted from 0: the number of players rated higher
\* or rated the same and registered earlier; a player without a record is
\* rated 0
SeedOf(player_id) ==
    Cardinality({q \in Range(tournament.players) :
        \/ RatingOf(rating, q) > RatingOf(rating, player_id)
        \/ /\ RatingOf(rating, q) = RatingOf(rating, player_id)
           /\ PlaceOf(q) < PlaceOf(player_id)})

\* the players with the seeds of the set
Seeded(seeds) == {p \in Range(tournament.players) : SeedOf(p) \in seeds}

\* the first Knockout rounds start_next_round can store
FirstKnockoutRounds ==
    {out.tournament.rounds[1] :
        out \in {o \in start_next_round(tournament, rating) : o.ret}}

\* C28: Knockout round 1 seeds the N players by rating, highest first (no
\* record counts as 0, equal ratings keep registration order), pads to the
\* least power of two P >= N and lets seed i meet seed P-1-i: P - N byes,
\* for the P - N highest seeds, and no pairing without a player.
C28_KnockoutSeeding ==
    /\ tournament.tournament_type = KNOCKOUT
    /\ Len(tournament.players) >= 1
    /\ tournament.rounds = <<>>
    => LET n == Len(tournament.players)
           P == BracketSize(n)
       IN  /\ FirstKnockoutRounds # {}
           /\ \A rd \in FirstKnockoutRounds :
                  /\ Len(rd.pairings) = P \div 2
                  /\ \A k \in 1..Len(rd.pairings) :
                         /\ PairingPlayers(rd.pairings[k])
                                = Seeded({k - 1, P - k})
                         /\ PairingPlayers(rd.pairings[k]) # {}
                         /\ k \in ByePairings(rd.pairings)
                                => rd.pairings[k].white_id \in Seeded({k - 1})
                  /\ Cardinality(ByePairings(rd.pairings)) = P - n
                  /\ UNION {PairingPlayers(rd.pairings[k]) :
                               k \in ByePairings(rd.pairings)}
                         = Seeded(0..(P - n - 1))

\* five players are seeded while the record of the highest rated is missing:
\* the three byes go to the next three, the unrecorded player is last seed
C28_Witness ==
    /\ tournament.tournament_type = KNOCKOUT
    /\ Len(tournament.players) = 5
    /\ Len(tournament.rounds) >= 1
    /\ \A p \in 1..4 : RatingOf(rating, p) = p
    /\ 5 \notin DOMAIN rating
    /\ Cardinality(ByePairings(tournament.rounds[1].pairings)) = 3
    /\ UNION {PairingPlayers(tournament.rounds[1].pairings[k]) :
                 k \in ByePairings(tournament.rounds[1].pairings)} = {4, 3, 2}
    /\ PairingPlayers(tournament.rounds[1].pairings[4]) = {1, 5}

\* the players the claim lets advance from a pairing: the player of a bye,
\* the winner of a decided game, either player of a drawn game, nobody from
\* a game that is ongoing or forfeited by both
Advancing(p) ==
    IF p.white_id = NoPlayer \/ p.black_id = NoPlayer THEN PairingPlayers(p)
    ELSE IF p.result \in {WHITE_WIN, FORFEIT_WHITE} THEN {p.white_id}
    ELSE IF p.result \in {BLACK_WIN, FORFEIT_BLACK} THEN {p.black_id}
    ELSE IF p.result = DRAW THEN {p.white_id, p.black_id}
    ELSE {}

\* the lists of advancing players, one per pairing that has any, in the
\* order of the pairings
RECURSIVE AdvancingLists(_)
AdvancingLists(ps) ==
    IF ps = <<>> THEN {<<>>}
    ELSE LET front == AdvancingLists(SubSeq(ps, 1, Len(ps) - 1))
             last == Advancing(ps[Len(ps)])
         IN  IF last = {} THEN front
             ELSE {Append(w, a) : w \in front, a \in last}

\* the round pairs the list w two by two and gives an unmatched last player
\* a bye
PairsConsecutively(rd, w) ==
    /\ Len(rd.pairings) = (Len(w) + 1) \div 2
    /\ \A j \in 1..Len(rd.pairings) :
           IF 2 * j <= Len(w)
           THEN /\ j \in RealPairings(rd.pairings)
                /\ PairingPlayers(rd.pairings[j]) = {w[2 * j - 1], w[2 * j]}
           ELSE /\ rd.pairings[j].white_id = w[2 * j - 1]
                /\ rd.pairings[j].black_id = NoPlayer

\* C29: a Knockout round N > 1 is made of the players advancing from round
\* N - 1 (white on a win or forfeit win of white and from every bye, black
\* on a win or forfeit win of black, one of the two on a draw, nobody from an
\* ongoing or doubly forfeited game), paired consecutively in the order of
\* round N - 1, an unmatched last one getting a bye.
C29_KnockoutAdvancement ==
    tournament.tournament_type = KNOCKOUT =>
        \A N \in 2..(MaxRoundNo + 1) :
            RoundIndex(tournament.rounds, N - 1) # 0 =>
                LET previous_round ==
                        tournament.rounds[RoundIndex(tournament.rounds, N - 1)]
                IN  /\ Generated(N) # {}
                    /\ \A rd \in Generated(N) :
                           \E w \in AdvancingLists(previous_round.pairings) :
                               PairsConsecutively(rd, w)

\* the player at position j (from 0) of the circle in round R: position 0 is
\* the first registered player, the others are the rest of the list, padded
\* with an empty place when odd, turned R - 1 places to the right
CirclePlace(R, j) ==
    LET players == tournament.players
        n == Len(players) + (Len(players) % 2)
        at(m) == IF m + 1 <= Len(players) THEN players[m + 1] ELSE NoPlayer
    IN  IF j = 0 THEN at(0)
        ELSE at(1 + ((j - 1 - (R - 1)) % (n - 1)))

\* the colours of round R follow the rule: the game at index i has position
\* n-1-i as white and position i as black when (i + R - 1) is even, and the
\* other way round when it is odd
ColoursByRule(R) ==
    LET n == Len(tournament.players) + (Len(tournament.players) % 2)
    IN  \A rd \in Generated(R) :
            /\ Len(rd.pairings) = n \div 2
            /\ \A i \in 0..(n \div 2 - 1) :
                   i + 1 \in RealPairings(rd.pairings) =>
                       LET swapped == (i + R - 1) % 2 = 0
                           lower == CirclePlace(R, i)
                           upper == CirclePlace(R, n - 1 - i)
                       IN  /\ rd.pairings[i + 1].white_id
                                  = IF swapped THEN upper ELSE lower
                           /\ rd.pairings[i + 1].black_id
                                  = IF swapped THEN lower ELSE upper

\* the games of the full schedule in which the player has the colour
GamesAs(player_id, white) ==
    LET n == Len(tournament.players)
    IN  {s \in FullSchedule(n) \X (1..n) :
            \E rd \in Generated(s[1]) :
                /\ s[2] \in RealPairings(rd.pairings)
                /\ player_id = IF white THEN rd.pairings[s[2]].white_id
                               ELSE rd.pairings[s[2]].black_id}

\* C30: Round Robin colours follow the alternation rule, and over the full
\* schedule of an even field every player's numbers of games as white and as
\* black differ by at most 1.
C30_RoundRobinColours ==
    tournament.tournament_type = ROUND_ROBIN /\ Len(tournament.players) >= 2 =>
        /\ \A R \in FullSchedule(Len(tournament.players)) : ColoursByRule(R)
        /\ Len(tournament.players) % 2 = 0 =>
               \A p \in Range(tournament.players) :
                   Abs(Cardinality(GamesAs(p, TRUE))
                       - Cardinality(GamesAs(p, FALSE))) <= 1

\* C31: start_next_round makes no partial mutation: when it returns failure
\* the stored tournament (current_round, is_finished, players, rounds) is
\* what it was before the call.  Stated for tournaments with players to pair.
C31_StartNextRoundAtomic ==
    HasPlayers =>
        \A out \in start_next_round(tournament, rating) :
            ~out.ret =>
                /\ out.tournament.current_round = tournament.current_round
                /\ out.tournament.is_finished = tournament.is_finished
                /\ out.tournament.players = tournament.players
                /\ out.tournament.rounds = tournament.rounds

\* the players the stored result of a pairing awards the game to: the winner,
\* or both players of a drawn game
Awarded(p) ==
    IF p.result \in {WHITE_WIN, FORFEIT_WHITE} THEN {p.white_id} \ {NoPlayer}
    ELSE IF p.result \in {BLACK_WIN, FORFEIT_BLACK} THEN {p.black_id} \ {NoPlayer}
    ELSE IF p.result = DRAW THEN PairingPlayers(p)
    ELSE {}

\* every bye of every stored round still has the result it was created with
ByesUntouched ==
    \A i \in 1..Len(tournament.rounds) :
        \A k \in ByePairings(tournament.rounds[i].pairings) :
            tournament.rounds[i].pairings[k].result = WHITE_WIN

\* C32: in a Knockout tournament every player paired in a stored round N > 1
\* is awarded a pairing of round N - 1 by the result stored for it now, so a
\* player recorded as the loser of round N - 1 is not in round N, also when
\* the result was entered after round N was generated.  Stated for the
\* states in which no bye was overwritten.
C32_BracketConsistent ==
    tournament.tournament_type = KNOCKOUT /\ ByesUntouched =>
        \A i \in 1..Len(tournament.rounds) :
            tournament.rounds[i].number > 1 =>
                \A k \in 1..Len(tournament.rounds[i].pairings) :
                    \A player_id \in PairingPlayers(tournament.rounds[i].pairings[k]) :
                        \E j \in RoundsNumbered(tournament.rounds[i].number - 1) :
                            \E m \in 1..Len(tournament.rounds[j].pairings) :
                                player_id \in Awarded(tournament.rounds[j].pairings[m])

\* two players have met in a stored round
HaveMet(a, b) == b \in get_player_opponents(tournament.rounds, a)

\* the set of players can be paired completely without a pair that has met
RECURSIVE FreshPairingExists(_)
FreshPairingExists(S) ==
    IF S = {} THEN TRUE
    ELSE LET a == CHOOSE x \in S : TRUE
         IN  \E b \in S \ {a} :
                 ~HaveMet(a, b) /\ FreshPairingExists(S \ {a, b})

\* C33: when the players a Swiss round has to pair (all but the recipient of
\* the bye) can be paired completely without a pair that has met, the round
\* generated holds no pair of players who have met.
C33_NoAvoidableRematch ==
    tournament.tournament_type = SWISS =>
        \A rd \in Generated(Len(tournament.rounds) + 1) :
            LET paired == UNION {PairingPlayers(rd.pairings[k]) :
                                    k \in RealPairings(rd.pairings)}
            IN  FreshPairingExists(paired) =>
                    \A k \in RealPairings(rd.pairings) :
                        ~HaveMet(rd.pairings[k].white_id, rd.pairings[k].black_id)

\* C34: every player id in a pairing of a stored round is in the player list
\* of the tournament.
C34_RoundPlayersRegistered ==
    \A i \in 1..Len(tournament.rounds) :
        \A k \in 1..Len(tournament.rounds[i].pairings) :
            PairingPlayers(tournament.rounds[i].pairings[k])
                \subseteq Range(tournament.players)

\* the round holds every player of the list exactly once, and nobody else
CoversField(rd) ==
    /\ \A p \in Range(tournament.players) :
           Cardinality({k \in 1..Len(rd.pairings) :
                           p \in PairingPlayers(rd.pairings[k])}) = 1
    /\ \A k \in 1..Len(rd.pairings) :
           /\ PairingPlayers(rd.pairings[k]) \subseteq Range(tournament.players)
           /\ PairingPlayers(rd.pairings[k]) # {}
           /\ rd.pairings[k].white_id # rd.pairings[k].black_id

\* the round numbers at which the claim speaks of the format: round 1 for
\* Knockout, the round generated next for Swiss (the strategy reads the
\* number only to label the round), every number for Round Robin
CoverageRounds ==
    IF tournament.tournament_type = KNOCKOUT THEN {1}
    ELSE IF tournament.tournament_type = SWISS
    THEN {Len(tournament.rounds) + 1}
    ELSE 1..(MaxRoundNo + 1)

\* C35 as claimed: every Swiss round and every Round Robin round holds each
\* registered player exactly once, in a game or as the bye, and so does
\* Knockout round 1, for every number N >= 1 of players.
C35_CoverageAsClaimed ==
    Len(tournament.players) >= 1 =>
        \A r \in CoverageRounds :
            /\ Generated(r) # {}
            /\ \A rd \in Generated(r) : CoversField(rd)

\* C35 amended: the same for Swiss and Round Robin, and for Knockout round 1
\* with N >= 2 players; Knockout round 1 of a single player is empty.
C35_Coverage ==
    Len(tournament.players) >= 1 =>
        \A r \in CoverageRounds :
            /\ Generated(r) # {}
            /\ \A rd \in Generated(r) :
                   IF tournament.tournament_type = KNOCKOUT
                      /\ Len(tournament.players) = 1
                   THEN rd.pairings = <<>>
                   ELSE CoversField(rd)

\* a Swiss field of three holds two rounds, the first with a decided game,
\* and the second covers the field with a bye for another player
C35_Witness ==
    /\ tournament.tournament_type = SWISS
    /\ Len(tournament.players) = 3
    /\ Len(tournament.rounds) = MaxRounds
    /\ \E k \in RealPairings(tournament.rounds[1].pairings) :
           tournament.rounds[1].pairings[k].result \in {WHITE_WIN, BLACK_WIN}
    /\ CoversField(tournament.rounds[2])
    /\ Cardinality(HadBye) = 2

\* the byes a player has in the stored rounds, as places <<round, pairing>>
ByesOf(player_id) ==
    {pos \in PositionsOf(tournament.rounds, player_id) :
        pos[2] \in ByePairings(tournament.rounds[pos[1]].pairings)}

\* C36: in a Swiss tournament with an odd number N of players, whatever
\* results are entered, nobody has a second bye while somebody has none, and
\* when N rounds are stored every player has exactly one bye.
C36_ByeRotation ==
    tournament.tournament_type = SWISS /\ Len(tournament.players) % 2 = 1 =>
        LET players == Range(tournament.players)
        IN  /\ \A p \in players :
                   Cardinality(ByesOf(p)) >= 2 =>
                       \A q \in players : Cardinality(ByesOf(q)) >= 1
            /\ \A i \in 1..Len(tournament.rounds) :
                   Cardinality(ByePairings(tournament.rounds[i].pairings)) = 1
            /\ Len(tournament.rounds) = Len(tournament.players) =>
                   \A p \in players : Cardinality(ByesOf(p)) = 1

\* three players have played three rounds, a bye was overwritten, and each
\* has had a bye
C36_Witness ==
    /\ tournament.tournament_type = SWISS
    /\ Len(tournament.players) = 3
    /\ Len(tournament.rounds) = 3
    /\ ~ByesUntouched
    /\ \A p \in Range(tournament.players) : Cardinality(ByesOf(p)) = 1

\* the stored games the player has lost
LostGames(player_id) ==
    {pos \in PositionsOf(tournament.rounds, player_id) :
        LET p == tournament.rounds[pos[1]].pairings[pos[2]]
        IN  /\ pos[2] \in RealPairings(tournament.rounds[pos[1]].pairings)
            /\ Awarded(p) # {}
            /\ player_id \notin Awarded(p)}

\* k for a field of 2^k players, 0 for another field
BracketDepth(n) ==
    IF n = 2 THEN 1 ELSE IF n = 4 THEN 2 ELSE IF n = 8 THEN 3 ELSE 0

\* C37: a Knockout of N = 2^k players played in order, every game decided
\* before the next round is generated: round j <= k has exactly 2^(k-j)
\* games and no bye, round k is one game, and once it is decided its winner
\* is the only player without a lost game.
C37_BracketToChampion ==
    LET k == BracketDepth(Len(tournament.players))
    IN  tournament.tournament_type = KNOCKOUT /\ k >= 1 =>
            /\ \A i \in 1..Len(tournament.rounds) :
                   LET ps == tournament.rounds[i].pairings
                       j == tournament.rounds[i].number
                   IN  /\ j = i
                       /\ j <= k =>
                              /\ Cardinality(RealPairings(ps)) = 2 ^ (k - j)
                              /\ ByePairings(ps) = {}
            /\ \A i \in RoundsNumbered(k) :
                   LET final == tournament.rounds[i].pairings
                   IN  /\ Len(final) = 1
                       /\ final[1].result # ONGOING =>
                              /\ Cardinality(Awarded(final[1])) = 1
                              /\ \A p \in Range(tournament.players) :
                                     LostGames(p) = {} <=> p \in Awarded(final[1])

\* a bracket of eight is played to its final, which black wins
C37_Witness ==
    /\ tournament.tournament_type = KNOCKOUT
    /\ Len(tournament.players) = 8
    /\ Len(tournament.rounds) = 3
    /\ tournament.rounds[3].pairings[1].result = BLACK_WIN
    /\ LostGames(tournament.rounds[3].pairings[1].black_id) = {}

\* C38: without a lock, when invocations of generate_pairings for the same
\* tournament interleave between their load and their save, the stored
\* tournament never holds two rounds with the same number.
C38_NoDuplicateRound ==
    \A i \in 1..Len(tournament.rounds) :
        Cardinality(RoundsNumbered(tournament.rounds[i].number)) = 1

\* both callers have generated the same round number with success, which
\* needs both to have loaded before either saved; one round with that number
\* is stored
C38_Witness ==
    /\ \A c \in Callers : calls[c].pc = "done" /\ calls[c].ret
    /\ calls[1].round_number = calls[2].round_number
    /\ calls[1].round_number # NoRoundNumber
    /\ Cardinality(RoundsNumbered(calls[1].round_number)) = 1
    /\ Len(tournament.players) >= 2

\* ---------------------------------------------------------------- C39
\* two generated rounds that differ at most in who has white: the same
\* number of pairings and, place by place, the same players, the same
\* board number and a bye in both or in neither
SameUpToColours(a, b) ==
    /\ Len(a.pairings) = Len(b.pairings)
    /\ \A k \in 1..Len(a.pairings) :
          /\ PairingPlayers(a.pairings[k]) = PairingPlayers(b.pairings[k])
          /\ a.pairings[k].board_number = b.pairings[k].board_number
          /\ (a.pairings[k].black_id = NoPlayer) = (b.pairings[k].black_id = NoPlayer)

\* the round whose generation draws random numbers for the colours only:
\* the next round of a Swiss tournament, round 1 of a Knockout
DrawnRounds ==
    IF tournament.tournament_type = SWISS THEN {Len(tournament.rounds) + 1}
    ELSE IF tournament.tournament_type = KNOCKOUT THEN {1}
    ELSE {}

\* C39: from one tournament state, any two runs of Swiss generation and any
\* two runs of Knockout round 1 generation give the same byes and the same
\* unordered pairs on the same boards: the random numbers decide the
\* colours only
C39_RandomColoursOnly ==
    \A r \in DrawnRounds :
        \A a \in Generated(r), b \in Generated(r) : SameUpToColours(a, b)

\* a Swiss tournament with a round played and an odd field, whose next
\* round has a bye and comes out with different colours in different runs
C39_Witness ==
    /\ tournament.tournament_type = SWISS
    /\ Len(tournament.rounds) >= 1
    /\ Len(tournament.players) >= 3
    /\ \E a \in Generated(Len(tournament.rounds) + 1) :
          /\ \E k \in 1..Len(a.pairings) : a.pairings[k].black_id = NoPlayer
          /\ \E b \in Generated(Len(tournament.rounds) + 1) :
                \E k \in 1..Len(a.pairings) :
                    /\ a.pairings[k].black_id # NoPlayer
                    /\ a.pairings[k].white_id = b.pairings[k].black_id

====
